---- MODULE Spec2Model ----
(***************************************************************************)
(* Orderly starter: the per-shop settings store of src/server.js and its   *)
(* two endpoints, GET /api/settings and POST /api/settings.                *)
(*                                                                         *)
(* JavaScript values are tagged records [kind, b, n, s]: kind is the JSON  *)
(* kind of the value, and b, n, s carry a boolean, a number or a string.   *)
(* A settings record is a record of six such values.  The store is a       *)
(* function from the shop keys present in the Map to their records.        *)
(*                                                                         *)
(* route and csp are the path of the request being answered and the        *)
(* Content-Security-Policy header of its response; conn holds the          *)
(* requests whose body is still being read; page is the document of the    *)
(* embedded settings page in a browser.                                    *)
(***************************************************************************)
EXTENDS Integers, Sequences, FiniteSets, TLC

VARIABLES settingsByShop, req, res, hist, route, csp, conn, page

vars == <<settingsByShop, req, res, hist, route, csp, conn, page>>

(***************************************************************************)
(* JavaScript values                                                       *)
(***************************************************************************)
Undefined == [kind |-> "undefined", b |-> FALSE, n |-> 0, s |-> ""]
Null      == [kind |-> "null",      b |-> FALSE, n |-> 0, s |-> ""]
EmptyArr  == [kind |-> "array",     b |-> FALSE, n |-> 0, s |-> ""]
EmptyObj  == [kind |-> "object",    b |-> FALSE, n |-> 0, s |-> ""]
Bool(x)   == [kind |-> "boolean",   b |-> x,     n |-> 0, s |-> ""]
Num(x)    == [kind |-> "number",    b |-> FALSE, n |-> x, s |-> ""]
Str(x)    == [kind |-> "string",    b |-> FALSE, n |-> 0, s |-> x]

\* typeof v
TypeOf(v) == IF v.kind \in {"null", "array", "object"} THEN "object" ELSE v.kind

\* ToBoolean: the truthiness of a value, as used by !v and by ||
ToBoolean(v) ==
  CASE v.kind = "undefined" -> FALSE
    [] v.kind = "null"      -> FALSE
    [] v.kind = "boolean"   -> v.b
    [] v.kind = "number"    -> v.n # 0
    [] v.kind = "string"    -> v.s # ""
    [] OTHER                -> TRUE

\* A flag coercion that only accepts the boolean true.
BooleanStrict(v) == v.kind = "boolean" /\ v.b

\* Boolean(v)
Boolean(v) == ToBoolean(v)

Min(a, b) == IF a < b THEN a ELSE b

\* A slice that keeps the last characters instead of the first.
SliceTail(str, start, end) ==
  SubSeq(str, Len(str) - Min(end, Len(str)) + 1, Len(str))

\* str.slice(start, end) for 0 <= start <= end
Slice(str, start, end) == SubSeq(str, start + 1, Min(end, Len(str)))

\* the 40 of body.brandName.slice(0, 40)
BrandLimit == 40

(***************************************************************************)
(* Bounds and inputs                                                       *)
(***************************************************************************)
\* length of the longest brandName a request carries
MaxBrandLen == 50

Letters == <<"a", "b", "c", "d", "e", "f", "g">>

RECURSIVE Gen(_)
\* a string of n characters, the i-th being letter i modulo 7, so that no two
\* of its 40-character substrings at offsets less than 7 apart are equal
Gen(n) == IF n = 0 THEN "" ELSE Gen(n - 1) \o Letters[(n % 7) + 1]

\* the shop keys requests are addressed to
Shops == {"acme.myshopify.com", "shop.example"}

\* values of req.query.shop that are no shop: absent, empty, repeated
\* (?shop=a&shop=b)
NoShops == {Undefined, Str(""), EmptyArr}

QueryShops == NoShops \cup {Str(k) : k \in Shops}

\* the strings a body carries as brandName
BrandStrings == {"Acme Co", Gen(BrandLimit), Gen(MaxBrandLen)}

\* values of any JSON kind, truthy and falsy
OddValues ==
  {Null, Bool(FALSE), Bool(TRUE), Num(0), Num(1), Str(""), Str("yes"),
   EmptyArr, EmptyObj}

\* values that are no string
NonStrings == {Null, Bool(TRUE), Num(1), EmptyArr}

(***************************************************************************)
(* Settings records                                                        *)
(***************************************************************************)
\* Defaults with another brand name.
defaultSettingsLower(shop) ==
  [shop |-> shop,
   brandName |-> Str("orderly"),
   accent |-> Str("#16a34a"),
   notifyDelay |-> Bool(TRUE),
   notifyOutForDelivery |-> Bool(TRUE),
   notifyDelivered |-> Bool(TRUE)]

defaultSettings(shop) ==
  [shop |-> shop,
   brandName |-> Str("Orderly"),
   accent |-> Str("#16a34a"),
   notifyDelay |-> Bool(TRUE),
   notifyOutForDelivery |-> Bool(TRUE),
   notifyDelivered |-> Bool(TRUE)]

\* the settings member of a response that has none
NoSettings ==
  [shop |-> Undefined, brandName |-> Undefined, accent |-> Undefined,
   notifyDelay |-> Undefined, notifyOutForDelivery |-> Undefined,
   notifyDelivered |-> Undefined]

(***************************************************************************)
(* Request bodies: req.body after express.json(), either undefined or an   *)
(* object whose absent members read as undefined.                          *)
(***************************************************************************)
EmptyBody ==
  [kind |-> "object", shop |-> Undefined, brandName |-> Undefined,
   accent |-> Undefined, notifyDelay |-> Undefined,
   notifyOutForDelivery |-> Undefined, notifyDelivered |-> Undefined]

NoBody == [EmptyBody EXCEPT !.kind = "undefined"]

FlagFields == {"notifyDelay", "notifyOutForDelivery", "notifyDelivered"}

\* bodies that supply all five settings, well typed
FullBodies ==
  {[kind |-> "object", shop |-> Undefined, brandName |-> Str(bn),
    accent |-> Str("#ff0000"), notifyDelay |-> Bool(d),
    notifyOutForDelivery |-> Bool(o), notifyDelivered |-> Bool(v)] :
     bn \in {"Acme Co", Gen(BrandLimit)},
     d \in BOOLEAN, o \in BOOLEAN, v \in BOOLEAN}

\* the body of the spec's end-to-end example
AcmeBody ==
  [kind |-> "object", shop |-> Undefined, brandName |-> Str("Acme Co"),
   accent |-> Str("#ff0000"), notifyDelay |-> Bool(FALSE),
   notifyOutForDelivery |-> Bool(TRUE), notifyDelivered |-> Bool(TRUE)]

\* bodies that supply a single member, of any kind
SingleBodies ==
  {[EmptyBody EXCEPT ![f] = v] : f \in FlagFields, v \in OddValues}
    \cup {[EmptyBody EXCEPT !.brandName = v] :
            v \in NonStrings \cup {Str("")} \cup {Str(bn) : bn \in BrandStrings}}
    \cup {[EmptyBody EXCEPT !.accent = v] : v \in NonStrings \cup {Str("#ff0000")}}
    \cup {[EmptyBody EXCEPT !.shop = v] : v \in {Str("shop.example"), Num(1)}}

\* bodies that carry a shop member next to settings
ShopBodies == {[AcmeBody EXCEPT !.shop = Str("shop.example")]}

Bodies == {NoBody, EmptyBody} \cup FullBodies \cup SingleBodies \cup ShopBodies

\* the bodies posted to the second shop and with requests that name no shop
FewBodies == {AcmeBody}

\* the bodies a POST with this req.query.shop carries
BodiesFor(shop) == IF shop = Str("acme.myshopify.com") THEN Bodies ELSE FewBodies

(***************************************************************************)
(* The Map settingsByShop                                                  *)
(***************************************************************************)
\* A set that forgets every other key.
MapSetOnly(m, k, v) == [x \in {k} |-> v]

\* A set that writes the value under every key.
MapSetAll(m, k, v) == [x \in DOMAIN m \cup {k} |-> v]

\* A set that only replaces.
MapSetNoCreate(m, k, v) ==
  IF k \in DOMAIN m THEN [x \in DOMAIN m |-> IF x = k THEN v ELSE m[x]] ELSE m

\* m.set(k, v)
MapSet(m, k, v) == [x \in DOMAIN m \cup {k} |-> IF x = k THEN v ELSE m[x]]

\* A read that never finds the stored record.
CurrentDefault(m, shop) == defaultSettings(shop)

\* settingsByShop.get(shop) || defaultSettings(shop); a stored record is an
\* object, hence truthy
Current(m, shop) ==
  IF shop.s \in DOMAIN m THEN m[shop.s] ELSE defaultSettings(shop)

(***************************************************************************)
(* The handlers' steps                                                     *)
(***************************************************************************)
\* A validation that only looks at the type.
ShopMissingTypeOnly(shop) == TypeOf(shop) # "string"

\* !shop || typeof shop !== "string"
ShopMissing(shop) == ~ToBoolean(shop) \/ TypeOf(shop) # "string"

\* req.body || {}
BodyOrEmpty(body) == IF body.kind = "undefined" THEN EmptyBody ELSE body

\* A brandName taken whenever the body has one.
NextBrandNameAny(body, prev) ==
  IF body.brandName.kind # "undefined" THEN body.brandName ELSE prev.brandName

\* typeof body.brandName === "string" ? body.brandName.slice(0, 40) : prev.brandName
NextBrandName(body, prev) ==
  IF TypeOf(body.brandName) = "string"
    THEN Str(Slice(body.brandName.s, 0, BrandLimit))
    ELSE prev.brandName

\* An accent that is never replaced.
NextAccentKeep(body, prev) == prev.accent

\* An accent taken whenever the body's is truthy.
NextAccentAny(body, prev) ==
  IF ToBoolean(body.accent) THEN body.accent ELSE prev.accent

\* typeof body.accent === "string" ? body.accent : prev.accent
NextAccent(body, prev) ==
  IF TypeOf(body.accent) = "string" THEN body.accent ELSE prev.accent

\* A merge that spreads the body over the previous record first.
NextSettingsSpreadBody(prev, body) ==
  [shop |-> IF body.shop.kind # "undefined" THEN body.shop ELSE prev.shop,
   brandName |-> NextBrandName(body, prev),
   accent |-> NextAccent(body, prev),
   notifyDelay |-> Bool(Boolean(body.notifyDelay)),
   notifyOutForDelivery |-> Bool(Boolean(body.notifyOutForDelivery)),
   notifyDelivered |-> Bool(Boolean(body.notifyDelivered))]

\* const next = { ...prev, brandName: ..., accent: ..., notifyDelay: ..., ... }
NextSettings(prev, body) ==
  [prev EXCEPT
     !.brandName = NextBrandName(body, prev),
     !.accent = NextAccent(body, prev),
     !.notifyDelay = Bool(Boolean(body.notifyDelay)),
     !.notifyOutForDelivery = Bool(Boolean(body.notifyOutForDelivery)),
     !.notifyDelivered = Bool(Boolean(body.notifyDelivered))]

\* res.status(400).json({ ok: false, error: "Missing ?shop=" })
MissingShopResponse ==
  [status |-> 400, ok |-> FALSE, error |-> "Missing ?shop=",
   settings |-> NoSettings]

\* res.json({ ok: true, settings })
OkResponse(settings) ==
  [status |-> 200, ok |-> TRUE, error |-> "", settings |-> settings]

(***************************************************************************)
(* The Content-Security-Policy middleware                                  *)
(***************************************************************************)
RECURSIVE Join(_, _)
\* parts.join(sep)
Join(parts, sep) ==
  IF Len(parts) = 0 THEN ""
  ELSE IF Len(parts) = 1 THEN parts[1]
  ELSE parts[1] \o sep \o Join(Tail(parts), sep)

\* A test that looks for the suffix anywhere in the string.
Includes(str, suffix) ==
  \E i \in 1..Len(str) :
    i + Len(suffix) - 1 <= Len(str)
      /\ SubSeq(str, i, i + Len(suffix) - 1) = suffix

\* str.endsWith(suffix)
EndsWith(str, suffix) ==
  /\ Len(str) >= Len(suffix)
  /\ SubSeq(str, Len(str) - Len(suffix) + 1, Len(str)) = suffix

\* frameAncestors after the conditional push
FrameAncestors(shop) ==
  <<"https://admin.shopify.com", "https://*.myshopify.com">>
    \o (IF TypeOf(shop) = "string" /\ EndsWith(shop.s, ".myshopify.com")
          THEN <<"https://" \o shop.s>>
          ELSE <<>>)

\* the value given to res.setHeader("Content-Security-Policy", ...)
ContentSecurityPolicy(shop) ==
  Join(<<"default-src 'self' https: data: blob:",
         "script-src 'self' 'unsafe-inline' https://cdn.shopify.com https://unpkg.com",
         "style-src 'self' 'unsafe-inline' https://cdn.shopify.com https://unpkg.com",
         "img-src 'self' https: data: blob:",
         "connect-src 'self' https:",
         "frame-ancestors " \o Join(FrameAncestors(shop), " ")>>, "; ")

(***************************************************************************)
(* What a client has seen of each shop: the last request addressed to it   *)
(* (method), whether it was a GET that followed a GET (again), the record  *)
(* it was answered with (settings), whether it found no entry (fresh), and *)
(* the body of the last POST when that body supplied all five settings     *)
(* well typed and only GETs followed it (posted, else NoBody).             *)
(***************************************************************************)
FullValid(body) ==
  /\ body.kind = "object"
  /\ body.brandName.kind = "string" /\ Len(body.brandName.s) <= BrandLimit
  /\ body.accent.kind = "string"
  /\ body.notifyDelay.kind = "boolean"
  /\ body.notifyOutForDelivery.kind = "boolean"
  /\ body.notifyDelivered.kind = "boolean"

NoHist ==
  [method |-> "none", again |-> FALSE, settings |-> NoSettings,
   fresh |-> FALSE, posted |-> NoBody]

Seen(k, method, settings, body) ==
  [x \in DOMAIN hist |->
     IF x # k THEN hist[x]
     ELSE [method |-> method,
           again |-> method = "GET" /\ hist[x].method = "GET",
           settings |-> settings,
           fresh |-> k \notin DOMAIN settingsByShop,
           posted |-> IF method = "POST"
                        THEN (IF FullValid(body) THEN body ELSE NoBody)
                        ELSE hist[x].posted]]

(***************************************************************************)
(* Specification                                                           *)
(***************************************************************************)
\* no request is being read
NoConn == << >>

\* no page is open; the fields are those of the document once it is: the
\* shop of its URL, the values of the five form controls, the texts of #msg
\* and #mEnabled, the fetch that is under way and the payload it carries
NoPage ==
  [open |-> FALSE, shop |-> "", brandName |-> "", accent |-> "#000000",
   notifyDelay |-> FALSE, notifyOutForDelivery |-> FALSE,
   notifyDelivered |-> FALSE, msg |-> "", mEnabled |-> "-",
   pending |-> "none", payload |-> NoBody]

Init ==
  /\ settingsByShop = [k \in {} |-> NoSettings]
  /\ req = [method |-> "none", shop |-> Undefined, body |-> NoBody]
  /\ res = [status |-> 0, ok |-> FALSE, error |-> "", settings |-> NoSettings]
  /\ hist = [k \in Shops |-> NoHist]
  /\ route = ""
  /\ csp = ""
  /\ conn = NoConn
  /\ page = NoPage

\* app.get("/api/settings")
GetSettings(shop) ==
  /\ req' = [method |-> "GET", shop |-> shop, body |-> NoBody]
  /\ route' = "/api/settings"
  /\ csp' = ContentSecurityPolicy(shop)
  /\ IF ShopMissing(shop)
       THEN /\ res' = MissingShopResponse
            /\ UNCHANGED <<settingsByShop, hist>>
       ELSE LET current == Current(settingsByShop, shop) IN
            /\ settingsByShop' = MapSet(settingsByShop, shop.s, current)
            /\ res' = OkResponse(current)
            /\ hist' = Seen(shop.s, "GET", current, NoBody)

\* app.post("/api/settings")
PostSettings(shop, reqBody) ==
  /\ req' = [method |-> "POST", shop |-> shop, body |-> reqBody]
  /\ route' = "/api/settings"
  /\ csp' = ContentSecurityPolicy(shop)
  /\ IF ShopMissing(shop)
       THEN /\ res' = MissingShopResponse
            /\ UNCHANGED <<settingsByShop, hist>>
       ELSE LET prev == Current(settingsByShop, shop)
                body == BodyOrEmpty(reqBody)
                next == NextSettings(prev, body)
            IN
            /\ settingsByShop' = MapSet(settingsByShop, shop.s, next)
            /\ res' = OkResponse(next)
            /\ hist' = Seen(shop.s, "POST", next, reqBody)

Get == \E shop \in QueryShops : GetSettings(shop) /\ UNCHANGED <<conn, page>>

Post ==
  \E shop \in QueryShops :
    \E reqBody \in BodiesFor(shop) :
      PostSettings(shop, reqBody) /\ UNCHANGED <<conn, page>>

Next == Get \/ Post

Spec == Init /\ [][Next]_vars

(***************************************************************************)
(* All five routes, each behind the Content-Security-Policy middleware     *)
(***************************************************************************)
\* values of req.query.shop on the routes that do not use the store
AnyShops ==
  QueryShops \cup
    {Str(".myshopify.com"), Str("evilmyshopify.com"),
     Str("acme.myshopify.com.evil.io")}

\* app.get("/"): the settings page, an HTML document
RenderPage(shop) ==
  /\ req' = [method |-> "GET", shop |-> shop, body |-> NoBody]
  /\ route' = "/"
  /\ csp' = ContentSecurityPolicy(shop)
  /\ res' = [status |-> 200, type |-> "html", text |-> "<!doctype html>"]
  /\ UNCHANGED <<settingsByShop, hist>>

\* app.get("/auth/callback")
AuthCallback(shop) ==
  /\ req' = [method |-> "GET", shop |-> shop, body |-> NoBody]
  /\ route' = "/auth/callback"
  /\ csp' = ContentSecurityPolicy(shop)
  /\ res' = [status |-> 200, type |-> "text",
             text |-> "Orderly starter: auth callback placeholder. Next step is implementing Shopify OAuth here."]
  /\ UNCHANGED <<settingsByShop, hist>>

\* app.get("/health")
Health(shop) ==
  /\ req' = [method |-> "GET", shop |-> shop, body |-> NoBody]
  /\ route' = "/health"
  /\ csp' = ContentSecurityPolicy(shop)
  /\ res' = [status |-> 200, ok |-> TRUE, service |-> "orderly-starter"]
  /\ UNCHANGED <<settingsByShop, hist>>

\* Express's own answer when no route does: its final handler replaces the
\* Content-Security-Policy header by its own
FinalHandler(status) ==
  /\ csp' = "default-src 'none'"
  /\ res' = [status |-> status, type |-> "html", text |-> "<!DOCTYPE html>"]
  /\ UNCHANGED <<settingsByShop, hist>>

\* a body express.json() cannot parse
MalformedBody == [EmptyBody EXCEPT !.kind = "malformed"]

\* app.use(express.json()) comes first: a body it rejects is passed on as
\* an error, which skips the middleware and routes registered after it
RejectBody(method, shop) ==
  /\ req' = [method |-> method, shop |-> shop, body |-> MalformedBody]
  /\ route' = "(none)"
  /\ FinalHandler(400)

\* a path no route is registered for: the middleware runs, no route answers
NoRoute(method, shop) ==
  /\ req' = [method |-> method, shop |-> shop, body |-> NoBody]
  /\ route' = "(none)"
  /\ FinalHandler(404)

PostFew ==
  \E shop \in QueryShops :
    \E reqBody \in FewBodies \cup {EmptyBody} :
      PostSettings(shop, reqBody) /\ UNCHANGED <<conn, page>>

Page == \E shop \in AnyShops : RenderPage(shop) /\ UNCHANGED <<conn, page>>

Auth == \E shop \in AnyShops : AuthCallback(shop) /\ UNCHANGED <<conn, page>>

HealthCheck == \E shop \in AnyShops : Health(shop) /\ UNCHANGED <<conn, page>>

BadBody ==
  \E shop \in QueryShops :
    RejectBody("POST", shop) /\ UNCHANGED <<conn, page>>

NotFound ==
  \E method \in {"GET", "POST"}, shop \in QueryShops :
    NoRoute(method, shop) /\ UNCHANGED <<conn, page>>

NextRoutes ==
  Get \/ PostFew \/ Page \/ Auth \/ HealthCheck \/ BadBody \/ NotFound

SpecRoutes == Init /\ [][NextRoutes]_vars

(***************************************************************************)
(* Requests in flight.  Node runs one callback at a time: a request is     *)
(* received and express.json() reads its body while other requests are     *)
(* received or answered (Arrive); then the middleware and the route        *)
(* handler run in one turn of the event loop, from reading req.query.shop  *)
(* to res.json (Run).  conn[c] is the request of client c: its state, its  *)
(* shop and body, the record its handler read (prev) and wrote (next),     *)
(* and the clients whose requests were in flight together with it (with).  *)
(***************************************************************************)
Clients == {"c1", "c2"}

\* the bodies of the requests in flight
RaceBodies ==
  {[EmptyBody EXCEPT !.brandName = Str("Acme Co")],
   [EmptyBody EXCEPT !.accent = Str("#ff0000")],
   [EmptyBody EXCEPT !.notifyDelay = Bool(TRUE)],
   AcmeBody}

InFlight(c) == c \in DOMAIN conn /\ conn[c].state = "reading"

\* a POST /api/settings is received: express.json() starts reading its body
Arrive(c, shop, reqBody) ==
  /\ c \notin DOMAIN conn
  /\ conn' =
       [d \in DOMAIN conn \cup {c} |->
          IF d = c
            THEN [state |-> "reading", shop |-> shop, body |-> reqBody,
                  prev |-> NoSettings, next |-> NoSettings,
                  with |-> {x \in Clients : InFlight(x)}]
            ELSE IF InFlight(d)
              THEN [conn[d] EXCEPT !.with = @ \cup {c}]
              ELSE conn[d]]
  /\ UNCHANGED <<settingsByShop, req, res, hist, route, csp, page>>

\* the body has been read: the middleware and app.post("/api/settings") run
\* to completion
Run(c) ==
  /\ InFlight(c)
  /\ PostSettings(conn[c].shop, conn[c].body)
  /\ conn' = [conn EXCEPT ![c].state = "done",
                          ![c].prev = Current(settingsByShop, conn[c].shop),
                          ![c].next = res'.settings]
  /\ UNCHANGED page

ArriveAny ==
  \E c \in Clients, k \in Shops, reqBody \in RaceBodies :
    Arrive(c, Str(k), reqBody)

RunAny == \E c \in Clients : Run(c)

NextRace == ArriveAny \/ RunAny \/ Get

SpecRace == Init /\ [][NextRace]_vars

(***************************************************************************)
(* The embedded page: the document app.get("/") sends and its inline       *)
(* script, run by one browser.  A fetch is under way between the step      *)
(* that starts it and the step that handles its response; the server       *)
(* answers in that second step.  One fetch is under way at a time.  The    *)
(* texts of #msg are written without their emoji and #mEnabled's dash as   *)
(* "-".                                                                    *)
(***************************************************************************)
\* the shops of the URLs the page is opened with; "" is a URL without ?shop=
PageShops == {"acme.myshopify.com", ""}

\* what the user types as brand name and picks as accent
TypedBrands == {"Acme Co", Gen(MaxBrandLen)}
PickedAccents == {"#ff0000"}

HexDigits ==
  {"0", "1", "2", "3", "4", "5", "6", "7", "8", "9", "a", "b", "c", "d", "e", "f"}

\* the value an <input type="color"> takes when set to v: v when it is a
\* lower-case #rrggbb, else #000000
ColorValue(v) ==
  IF Len(v) = 7 /\ SubSeq(v, 1, 1) = "#"
       /\ \A i \in 2..7 : SubSeq(v, i, i) \in HexDigits
    THEN v
    ELSE "#000000"

\* a || b on strings held as values
OrElse(v, default) == IF ToBoolean(v) THEN v.s ELSE default

Count(v) == IF ToBoolean(v) THEN 1 ELSE 0

NumberText == <<"0", "1", "2", "3">>

\* setMetricsFromSettings(s): the text of #mEnabled
EnabledCount(s) ==
  NumberText[Count(s.notifyDelay) + Count(s.notifyOutForDelivery)
               + Count(s.notifyDelivered) + 1]

\* the payload of saveSettings
FormPayload ==
  [kind |-> "object", shop |-> Undefined,
   brandName |-> Str(page.brandName),
   accent |-> Str(page.accent),
   notifyDelay |-> Bool(page.notifyDelay),
   notifyOutForDelivery |-> Bool(page.notifyOutForDelivery),
   notifyDelivered |-> Bool(page.notifyDelivered)]

\* loadSettings up to its fetch
LoadStart(doc) ==
  IF doc.shop = ""
    THEN [doc EXCEPT !.msg = "Missing ?shop= in URL. Open app from Shopify Admin."]
    ELSE [doc EXCEPT !.msg = "Loading...", !.pending = "load"]

\* the browser opens /?shop=k: the server sends the document and its script
\* runs to the fetch of loadSettings()
OpenPage(k) ==
  /\ page.pending = "none"
  /\ RenderPage(IF k = "" THEN Undefined ELSE Str(k))
  /\ page' = LoadStart([NoPage EXCEPT !.open = TRUE, !.shop = k])
  /\ UNCHANGED conn

\* a click on Reload
LoadClick ==
  /\ page.open /\ page.pending = "none"
  /\ page' = LoadStart(page)
  /\ UNCHANGED <<settingsByShop, req, res, hist, route, csp, conn>>

\* loadSettings from the response of its fetch on
LoadDone ==
  /\ page.pending = "load"
  /\ GetSettings(Str(page.shop))
  /\ page' =
       IF ~res'.ok
         THEN [page EXCEPT !.msg = "Error: " \o res'.error, !.pending = "none"]
         ELSE LET s == res'.settings IN
              [page EXCEPT
                 !.brandName = OrElse(s.brandName, "Orderly"),
                 !.accent = ColorValue(OrElse(s.accent, "#16a34a")),
                 !.notifyDelay = ToBoolean(s.notifyDelay),
                 !.notifyOutForDelivery = ToBoolean(s.notifyOutForDelivery),
                 !.notifyDelivered = ToBoolean(s.notifyDelivered),
                 !.mEnabled = EnabledCount(s),
                 !.msg = "Loaded.",
                 !.pending = "none"]
  /\ UNCHANGED conn

\* the user edits the form
Edit ==
  /\ page.open
  /\ \/ \E v \in TypedBrands : page' = [page EXCEPT !.brandName = v]
     \/ \E v \in PickedAccents : page' = [page EXCEPT !.accent = ColorValue(v)]
     \/ \E f \in FlagFields : page' = [page EXCEPT ![f] = ~page[f]]
  /\ UNCHANGED <<settingsByShop, req, res, hist, route, csp, conn>>

\* a click on Save: saveSettings up to its fetch
SaveClick ==
  /\ page.open /\ page.pending = "none"
  /\ page' =
       IF page.shop = ""
         THEN [page EXCEPT !.msg = "Missing ?shop= in URL."]
         ELSE [page EXCEPT !.msg = "Saving...", !.pending = "save",
                           !.payload = FormPayload]
  /\ UNCHANGED <<settingsByShop, req, res, hist, route, csp, conn>>

\* saveSettings from the response of its fetch on
SaveDone ==
  /\ page.pending = "save"
  /\ PostSettings(Str(page.shop), page.payload)
  /\ page' =
       IF ~res'.ok
         THEN [page EXCEPT !.msg = "Save failed: " \o res'.error,
                           !.pending = "none", !.payload = NoBody]
         ELSE [page EXCEPT !.mEnabled = EnabledCount(res'.settings),
                           !.msg = "Saved.",
                           !.pending = "none", !.payload = NoBody]
  /\ UNCHANGED conn

Open == \E k \in PageShops : OpenPage(k)

NextPage == Open \/ LoadClick \/ LoadDone \/ Edit \/ SaveClick \/ SaveDone

SpecPage == Init /\ [][NextPage]_vars

(***************************************************************************)
(* Vocabulary of the properties.  A step of Next handles the request req'  *)
(* and answers it with res'.                                               *)
(***************************************************************************)
SettingsFields ==
  {"shop", "brandName", "accent", "notifyDelay", "notifyOutForDelivery",
   "notifyDelivered"}

\* the request is addressed to shop key k and was answered with success
Handled(r, a, method, k) ==
  r.method = method /\ r.shop = Str(k) /\ a.status = 200 /\ a.ok

\* the values JavaScript treats as false
Falsy(v) ==
  \/ v.kind \in {"undefined", "null"}
  \/ v.kind = "boolean" /\ ~v.b
  \/ v.kind = "number" /\ v.n = 0
  \/ v.kind = "string" /\ Len(v.s) = 0

\* the first 40 characters of a string
First40(str) == IF Len(str) <= 40 THEN str ELSE SubSeq(str, 1, 40)

\* the default record of shop key k, written out
DefaultOf(k) ==
  [shop |-> Str(k), brandName |-> Str("Orderly"), accent |-> Str("#16a34a"),
   notifyDelay |-> Bool(TRUE), notifyOutForDelivery |-> Bool(TRUE),
   notifyDelivered |-> Bool(TRUE)]

\* the record before the step: the stored one, or the default
Before(k) == IF k \in DOMAIN settingsByShop THEN settingsByShop[k] ELSE DefaultOf(k)

\* a posted body plus shop
WithShop(body, k) ==
  [shop |-> Str(k), brandName |-> body.brandName, accent |-> body.accent,
   notifyDelay |-> body.notifyDelay,
   notifyOutForDelivery |-> body.notifyOutForDelivery,
   notifyDelivered |-> body.notifyDelivered]

OnlyNotifyDeliveredFalse == [EmptyBody EXCEPT !.notifyDelivered = Bool(FALSE)]

(***************************************************************************)
(* C1: a POST for a shop that has a record, whose body supplies only       *)
(* notifyDelivered=false, leaves brandName, accent, notifyDelay and        *)
(* notifyOutForDelivery as they were and stores notifyDelivered=false.     *)
(***************************************************************************)
C1_MergeKeepsOtherFields ==
  [][\A k \in Shops :
       (/\ Handled(req', res', "POST", k)
        /\ req'.body = OnlyNotifyDeliveredFalse
        /\ k \in DOMAIN settingsByShop)
       => /\ k \in DOMAIN settingsByShop'
          /\ settingsByShop'[k].brandName = settingsByShop[k].brandName
          /\ settingsByShop'[k].accent = settingsByShop[k].accent
          /\ settingsByShop'[k].notifyDelay = settingsByShop[k].notifyDelay
          /\ settingsByShop'[k].notifyOutForDelivery =
               settingsByShop[k].notifyOutForDelivery
          /\ settingsByShop'[k].notifyDelivered = Bool(FALSE)]_vars

(***************************************************************************)
(* C2: a GET for a shop that has no entry answers {ok: true, settings}     *)
(* with the default record carrying that shop, and stores that record      *)
(* under the shop key.                                                     *)
(***************************************************************************)
C2_GetCreatesDefault ==
  [][\A k \in Shops :
       (/\ req'.method = "GET" /\ req'.shop = Str(k)
        /\ k \notin DOMAIN settingsByShop)
       => /\ res' = [status |-> 200, ok |-> TRUE, error |-> "",
                     settings |-> DefaultOf(k)]
          /\ k \in DOMAIN settingsByShop'
          /\ settingsByShop'[k] = DefaultOf(k)]_vars

C2_Witness ==
  \E k \in Shops :
    /\ Handled(req, res, "GET", k)
    /\ hist[k].method = "GET" /\ hist[k].fresh
    /\ res.settings = DefaultOf(k)
    /\ settingsByShop[k] = DefaultOf(k)

(***************************************************************************)
(* C3: a GET for a shop whose last request was a GET too, whatever was     *)
(* asked of other shops in between, returns the record the earlier GET     *)
(* returned and leaves the store as it is.                                 *)
(***************************************************************************)
C3_GetIdempotent ==
  [][\A k \in Shops :
       (/\ hist[k].method = "GET"
        /\ req'.method = "GET" /\ req'.shop = Str(k))
       => /\ res'.status = 200
          /\ res'.settings = hist[k].settings
          /\ settingsByShop' = settingsByShop]_vars

C3_Witness ==
  \E k \in Shops :
    /\ Handled(req, res, "GET", k)
    /\ hist[k].again
    /\ res.settings = settingsByShop[k]
    /\ res.settings # DefaultOf(k)
    /\ \E j \in Shops \ {k} : hist[j].method = "POST"

C5_RoundTrip ==
  [][\A k \in Shops :
       (/\ hist[k].posted # NoBody
        /\ req'.method = "GET" /\ req'.shop = Str(k))
       => /\ res'.status = 200 /\ res'.ok
          /\ res'.settings = WithShop(hist[k].posted, k)]_vars

C5_Witness ==
  \E k \in Shops :
    /\ Handled(req, res, "GET", k)
    /\ hist[k].posted = AcmeBody
    /\ res.settings = WithShop(AcmeBody, k)

(***************************************************************************)
(* C6: a POST whose body.brandName is a string stores the first 40         *)
(* characters of it (all of it when it has at most 40) and is answered     *)
(* with success.                                                           *)
(***************************************************************************)
C6_BrandNameTruncated ==
  [][\A k \in Shops :
       (/\ req'.method = "POST" /\ req'.shop = Str(k)
        /\ req'.body.kind = "object"
        /\ req'.body.brandName.kind = "string")
       => /\ res'.status = 200 /\ res'.ok
          /\ settingsByShop'[k].brandName = Str(First40(req'.body.brandName.s))
          /\ Len(settingsByShop'[k].brandName.s) <= 40]_vars

C6_Witness ==
  \E k \in Shops :
    /\ Handled(req, res, "POST", k)
    /\ Len(req.body.brandName.s) = MaxBrandLen
    /\ Len(settingsByShop[k].brandName.s) = 40
    /\ settingsByShop[k].brandName.s = SubSeq(req.body.brandName.s, 1, 40)

(***************************************************************************)
(* C7: a successful POST overwrites each of the three notify flags with    *)
(* the truthiness of the body's member: true for any truthy value, false   *)
(* for a missing or falsy one, whatever the flag was.                      *)
(***************************************************************************)
C7_FlagsCoerced ==
  [][\A k \in Shops :
       (req'.method = "POST" /\ req'.shop = Str(k))
       => /\ res'.status = 200
          /\ \A f \in FlagFields :
               settingsByShop'[k][f] = Bool(~Falsy(req'.body[f]))]_vars

C7_Witness ==
  \E k \in Shops :
    /\ Handled(req, res, "POST", k)
    /\ req.body.notifyDelay = Str("yes")
    /\ settingsByShop[k].notifyDelay = Bool(TRUE)
    /\ settingsByShop[k].notifyDelivered = Bool(FALSE)

(***************************************************************************)
(* C8: a successful POST replaces brandName (accent) only when the body's  *)
(* member is a string; otherwise the stored value is the previous          *)
(* record's, or the default's for a shop without a record, and the         *)
(* request succeeds all the same.                                          *)
(***************************************************************************)
C8_StringsKeptUnlessString ==
  [][\A k \in Shops :
       (req'.method = "POST" /\ req'.shop = Str(k))
       => /\ res'.status = 200 /\ res'.ok /\ res'.error = ""
          /\ (req'.body.brandName.kind # "string"
                => settingsByShop'[k].brandName = Before(k).brandName)
          /\ (req'.body.accent.kind # "string"
                => settingsByShop'[k].accent = Before(k).accent)
          /\ (settingsByShop'[k].brandName # Before(k).brandName
                => req'.body.brandName.kind = "string")
          /\ (settingsByShop'[k].accent # Before(k).accent
                => req'.body.accent.kind = "string")]_vars

C8_Witness ==
  \E k \in Shops :
    /\ Handled(req, res, "POST", k)
    /\ req.body.brandName = Num(1)
    /\ settingsByShop[k].brandName = Str("Acme Co")
    /\ settingsByShop[k].accent = Str("#ff0000")

(***************************************************************************)
(* C9: every stored record's shop is the key it is stored under, and no    *)
(* request, whatever its body (a shop member included), changes the shop   *)
(* of a record or removes it.                                              *)
(***************************************************************************)
C9_ShopIsKey ==
  [][/\ \A k \in DOMAIN settingsByShop' : settingsByShop'[k].shop = Str(k)
     /\ \A k \in DOMAIN settingsByShop :
          /\ k \in DOMAIN settingsByShop'
          /\ settingsByShop'[k].shop = settingsByShop[k].shop]_vars

C9_Witness ==
  /\ Handled(req, res, "POST", "acme.myshopify.com")
  /\ req.body.shop = Str("shop.example")
  /\ DOMAIN settingsByShop = Shops
  /\ settingsByShop["acme.myshopify.com"].shop = Str("acme.myshopify.com")
  /\ settingsByShop["shop.example"].shop = Str("shop.example")

(***************************************************************************)
(* C10: every stored record has the six members shop, brandName, accent,   *)
(* notifyDelay, notifyOutForDelivery and notifyDelivered; shop, brandName  *)
(* and accent are strings, brandName of at most 40 characters, and the     *)
(* three flags are booleans.                                               *)
(***************************************************************************)
C10_RecordsWellTyped ==
  \A k \in DOMAIN settingsByShop :
    LET r == settingsByShop[k] IN
    /\ DOMAIN r = SettingsFields
    /\ r.shop.kind = "string"
    /\ r.brandName.kind = "string" /\ Len(r.brandName.s) <= 40
    /\ r.accent.kind = "string"
    /\ \A f \in FlagFields : r[f].kind = "boolean"

C10_Witness ==
  \E k \in Shops :
    /\ Handled(req, res, "POST", k)
    /\ req.body.accent = Num(1)
    /\ k \in DOMAIN settingsByShop
    /\ settingsByShop[k].accent.kind = "string"
    /\ hist[k].fresh

(***************************************************************************)
(* C11: every response, the 400 responses of /api/settings included,       *)
(* carries a Content-Security-Policy header whose frame-ancestors          *)
(* directive lists https://admin.shopify.com and https://*.myshopify.com,  *)
(* and lists https://<shop> as well exactly when the shop query parameter  *)
(* is a string ending in .myshopify.com.                                   *)
(***************************************************************************)
C11_IsShopifyDomain(v) ==
  /\ v.kind = "string"
  /\ \E n \in 0..Len(v.s) : v.s = SubSeq(v.s, 1, n) \o ".myshopify.com"

C11_Expected ==
  "default-src 'self' https: data: blob:; "
    \o "script-src 'self' 'unsafe-inline' https://cdn.shopify.com https://unpkg.com; "
    \o "style-src 'self' 'unsafe-inline' https://cdn.shopify.com https://unpkg.com; "
    \o "img-src 'self' https: data: blob:; "
    \o "connect-src 'self' https:; "
    \o "frame-ancestors https://admin.shopify.com https://*.myshopify.com"
    \o (IF C11_IsShopifyDomain(req.shop) THEN " https://" \o req.shop.s ELSE "")

\* C11 as stated: every response carries the header
C11_EveryResponse == route # "" => csp = C11_Expected

\* C11 as amended: every response of one of the five routes carries the
\* header, the 400 responses of /api/settings included
C11_RouteResponses == route \notin {"", "(none)"} => csp = C11_Expected

C11_Witness ==
  /\ route = "/api/settings"
  /\ res.status = 400
  /\ req.shop = EmptyArr
  /\ csp = C11_Expected
  /\ "acme.myshopify.com" \in DOMAIN settingsByShop

(***************************************************************************)
(* C12: two POST /api/settings for the same shop handled concurrently      *)
(* resolve to last-write-wins without atomicity across the read, merge     *)
(* and write: the record stored last is the one the later request wrote,   *)
(* and the later request may have read the record the earlier one read,    *)
(* so that a brandName or accent change of the earlier one is lost.        *)
(***************************************************************************)
\* request c has written a brandName or accent change and nothing was
\* written over it since
C12_Changed(c) ==
  /\ c \in DOMAIN conn /\ conn[c].state = "done"
  /\ conn[c].shop.s \in DOMAIN settingsByShop
  /\ settingsByShop[conn[c].shop.s] = conn[c].next
  /\ \/ conn[c].next.brandName # conn[c].prev.brandName
     \/ conn[c].next.accent # conn[c].prev.accent

\* C12 as stated: a request in flight together with one that has written a
\* change can still merge into the record that one read
C12_LostUpdatePossible ==
  \A c \in Clients, d \in Clients :
    (/\ C12_Changed(c)
     /\ InFlight(d)
     /\ d \in conn[c].with
     /\ conn[d].shop = conn[c].shop)
    => ENABLED (Run(d) /\ conn'[d].prev = conn[c].prev)

\* C12 as amended: the handler of a POST reads the record stored when it
\* runs and writes its merge in the same turn, so the record stored last is
\* the later request's merge into what the earlier one wrote, and brandName
\* and accent change only when the body of the running request has a string
C12_HandlerAtomic ==
  [][\A d \in Clients :
       (InFlight(d) /\ conn'[d].state = "done")
       => LET k == conn[d].shop.s IN
          /\ conn'[d].prev = Before(k)
          /\ settingsByShop'[k] = conn'[d].next
          /\ (conn[d].body.brandName.kind # "string"
                => settingsByShop'[k].brandName = Before(k).brandName)
          /\ (conn[d].body.accent.kind # "string"
                => settingsByShop'[k].accent = Before(k).accent)
          /\ \A c \in conn[d].with :
               C12_Changed(c) /\ conn[c].shop = conn[d].shop
                 => conn'[d].prev = conn[c].next]_vars

C12_Witness ==
  /\ DOMAIN conn = Clients
  /\ conn["c1"].state = "done" /\ conn["c2"].state = "done"
  /\ conn["c1"].shop = Str("acme.myshopify.com")
  /\ conn["c2"].shop = Str("acme.myshopify.com")
  /\ "c2" \in conn["c1"].with
  /\ conn["c1"].body = [EmptyBody EXCEPT !.brandName = Str("Acme Co")]
  /\ conn["c2"].body = [EmptyBody EXCEPT !.accent = Str("#ff0000")]
  /\ conn["c2"].prev = conn["c1"].next
  /\ settingsByShop["acme.myshopify.com"].brandName = Str("Acme Co")
  /\ settingsByShop["acme.myshopify.com"].accent = Str("#ff0000")

(***************************************************************************)
(* C13: a GET or POST /api/settings for one shop leaves every other        *)
(* shop's record, and its presence or absence in the store, as it was.     *)
(***************************************************************************)
C13_OtherShopsUntouched ==
  [][\A k \in DOMAIN settingsByShop \cup DOMAIN settingsByShop' \cup Shops :
       req'.shop # Str(k)
       => /\ (k \in DOMAIN settingsByShop <=> k \in DOMAIN settingsByShop')
          /\ (k \in DOMAIN settingsByShop
                => settingsByShop'[k] = settingsByShop[k])]_vars

C13_Witness ==
  /\ Handled(req, res, "POST", "acme.myshopify.com")
  /\ req.body = [EmptyBody EXCEPT !.brandName = Str("")]
  /\ hist["shop.example"].method = "POST"
  /\ settingsByShop["shop.example"] = WithShop(AcmeBody, "shop.example")
  /\ settingsByShop["acme.myshopify.com"].brandName = Str("")
  /\ settingsByShop["acme.myshopify.com"].notifyDelivered = Bool(FALSE)

(***************************************************************************)
(* C14: a shop's record comes into existence at the first successful GET   *)
(* or POST /api/settings for that shop and at no other step; once present  *)
(* it stays present; the page, the auth placeholder and the health check   *)
(* leave the store as it is.                                               *)
(***************************************************************************)
C14_CreateOnly ==
  [][/\ DOMAIN settingsByShop \subseteq DOMAIN settingsByShop'
     /\ \A k \in DOMAIN settingsByShop' \ DOMAIN settingsByShop :
          route' = "/api/settings" /\ req'.shop = Str(k) /\ res'.status = 200
     /\ \A k \in Shops :
          (route' = "/api/settings" /\ req'.shop = Str(k))
            => res'.status = 200 /\ k \in DOMAIN settingsByShop'
     /\ route' \in {"/", "/auth/callback", "/health"}
          => settingsByShop' = settingsByShop]_vars

C14_Witness ==
  /\ route = "/health"
  /\ req.shop = Str("shop.example")
  /\ DOMAIN settingsByShop = {"acme.myshopify.com"}
  /\ settingsByShop["acme.myshopify.com"] = WithShop(AcmeBody, "acme.myshopify.com")
  /\ hist["acme.myshopify.com"].method = "GET"

(***************************************************************************)
(* C15: when a save completes successfully, the values the form shows      *)
(* (brandName, accent and the three checkboxes) equal the record now       *)
(* stored for the shop, also when the server altered a submitted value.    *)
(***************************************************************************)
C15_FormShowsStored ==
  [][(/\ page.pending = "save"
      /\ page'.pending = "none"
      /\ page'.msg = "Saved."
      /\ FormPayload = page.payload)
     => LET s == settingsByShop'[page.shop] IN
        /\ s.brandName = Str(page'.brandName)
        /\ s.accent = Str(page'.accent)
        /\ s.notifyDelay = Bool(page'.notifyDelay)
        /\ s.notifyOutForDelivery = Bool(page'.notifyOutForDelivery)
        /\ s.notifyDelivered = Bool(page'.notifyDelivered)]_vars

====
